---- MODULE Spec2Model ----
(***************************************************************************)
(* Activity detection and timeline analysis: the pandas event collection   *)
(* (DataFrame), its ingestion (DataPreprocessor, ActivityClassifier) and   *)
(* the analyses of PatternAnalyzer and TimelineBuilder.                    *)
(*                                                                         *)
(* A DataFrame is [cols, rows]: cols is the sequence of column names (a    *)
(* name may occur twice), rows the sequence of rows, rows[r][i] being the  *)
(* value of column cols[i].  A raw timestamp is the pair (day, hour) (the   *)
(* text "day hour:00"), a datetime the number of hours since Monday        *)
(* 00:00 of week 0, each tagged with its type.  A float that the code      *)
(* computes by division or square root is kept exactly, as a record of     *)
(* integers.                                                               *)
(***************************************************************************)
EXTENDS Integers, Sequences, FiniteSets, TLC

VARIABLES data, self, stage, op, ret, exc, first_patterns, adr_calls

vars == <<data, self, stage, op, ret, exc, first_patterns, adr_calls>>

(* ------------------------------ bounds -------------------------------- *)
MaxDays == 9
MaxCount == 3
MaxTravelDay == 9
MaxTravelDates == 4
MaxSessionTravel == 2
MaxSessionDays == 3
MaxWeeks == 4
MaxWeekly == 2
MaxRawRows == 2
MaxHours == 5
MaxPerHour == 2
MaxGapDay == 8
MaxBatch == 3
MaxOrderDay == 9

(* ------------------------- program constants -------------------------- *)
MinEvents == 10
RollingWindow == 7
PeakCount == 3
TrendGate == 2
MinTravelRun == 2
EarlyRiserHour == 7
LateStartHour == 9
HighActivityHours == 14
LowActivityHours == 8

NaN == "NaN"

(* ----------------------------- arithmetic ----------------------------- *)
Abs(x) == IF x < 0 THEN -x ELSE x

RECURSIVE SumSeq(_)
SumSeq(s) == IF Len(s) = 0 THEN 0 ELSE Head(s) + SumSeq(Tail(s))

SumSq(s) == SumSeq(<<>> \o [i \in 1..Len(s) |-> s[i] * s[i]])

Range(s) == {s[i] : i \in 1..Len(s)}

RECURSIVE SetToSeq(_)
SetToSeq(S) ==
    IF S = {} THEN <<>>
    ELSE LET x == CHOOSE y \in S : TRUE IN <<x>> \o SetToSeq(S \ {x})

MinOf(S) == CHOOSE x \in S : \A y \in S : x <= y
MaxOf(S) == CHOOSE x \in S : \A y \in S : y <= x

RECURSIVE python_sorted_set(_)
python_sorted_set(S) ==
    IF S = {} THEN <<>>
    ELSE <<MinOf(S)>> \o python_sorted_set(S \ {MinOf(S)})

(* ------------------------------ DataFrame ----------------------------- *)
DataFrame(cols, rows) == [cols |-> cols, rows |-> rows]

df_len(df) == Len(df.rows)

df_empty(df) == Len(df.cols) = 0 \/ Len(df.rows) = 0

has_column(df, c) == \E i \in 1..Len(df.cols) : df.cols[i] = c

column_index(df, c) ==
    CHOOSE i \in 1..Len(df.cols) :
        df.cols[i] = c /\ \A j \in 1..(i - 1) : df.cols[j] # c

(* <<>> \o f lists a function over 1..n as a sequence                      *)
AsSeq(f) == <<>> \o f

get_column(df, c) ==
    LET i == column_index(df, c) IN AsSeq([r \in 1..Len(df.rows) |-> df.rows[r][i]])

set_column(df, c, vals) ==
    IF has_column(df, c)
    THEN [df EXCEPT !.rows =
            AsSeq([r \in 1..Len(df.rows) |->
                AsSeq([i \in 1..Len(df.cols) |->
                    IF df.cols[i] = c THEN vals[r] ELSE df.rows[r][i]])])]
    ELSE [cols |-> Append(df.cols, c),
          rows |-> AsSeq([r \in 1..Len(df.rows) |-> Append(df.rows[r], vals[r])])]

(* the entries of s at the positions of keep from i on, in their order     *)
select_seq_idx(s, keep, i) ==
    LET K == {j \in i..Len(s) : j \in keep}
    IN  AsSeq([n \in 1..Cardinality(K) |->
                 s[CHOOSE j \in K : Cardinality({y \in K : y <= j}) = n]])

drop_duplicated_columns(df) ==
    LET keep == {i \in 1..Len(df.cols) : \A j \in 1..(i - 1) : df.cols[j] # df.cols[i]}
    IN  [cols |-> select_seq_idx(df.cols, keep, 1),
         rows |-> AsSeq([r \in 1..Len(df.rows) |-> select_seq_idx(df.rows[r], keep, 1)])]

filter_rows(df, keep) == [df EXCEPT !.rows = select_seq_idx(df.rows, keep, 1)]

(* ------------------------ datetime conversions ------------------------ *)
(* A timestamp text is <<"str", day, hour>>, a parsed datetime <<"dt", h>>  *)
(* with h = 24 * day + hour; pd.to_datetime parses a text and leaves a      *)
(* datetime as it is.  Day 0 is a Monday; to_period('W') is the Monday to   *)
(* Sunday week.                                                            *)
to_datetime(ts) == IF ts[1] = "dt" THEN ts ELSE <<"dt", ts[2] * 24 + ts[3]>>
dt_hour(t) == t[2] % 24
dt_date(t) == t[2] \div 24
dt_week(t) == (t[2] \div 24) \div 7
DayNames == <<"Monday", "Tuesday", "Wednesday", "Thursday", "Friday", "Saturday", "Sunday">>
dt_day_name(t) == DayNames[((t[2] \div 24) % 7) + 1]

(* element-wise application to column c                                    *)
col_to_datetime(df, c) ==
    LET vals == get_column(df, c) IN AsSeq([r \in 1..Len(vals) |-> to_datetime(vals[r])])

col_dt_hour(df, c) ==
    LET vals == get_column(df, c) IN AsSeq([r \in 1..Len(vals) |-> dt_hour(vals[r])])

col_dt_date(df, c) ==
    LET vals == get_column(df, c) IN AsSeq([r \in 1..Len(vals) |-> dt_date(vals[r])])

col_dt_week(df, c) ==
    LET vals == get_column(df, c) IN AsSeq([r \in 1..Len(vals) |-> dt_week(vals[r])])

col_dt_day_name(df, c) ==
    LET vals == get_column(df, c) IN AsSeq([r \in 1..Len(vals) |-> dt_day_name(vals[r])])

(* ---------------------------- pandas Series --------------------------- *)
(* a count for every key from the smallest to the largest, 0 for a key     *)
(* that has no row (what a calendar resampling would give)                 *)
groupby_size_calendar(keys) ==
    IF Len(keys) = 0 THEN <<>>
    ELSE LET lo == MinOf(Range(keys))
             hi == MaxOf(Range(keys))
         IN  AsSeq([i \in 1..(hi - lo + 1) |->
                 [key |-> lo + i - 1,
                  size |-> Cardinality({r \in 1..Len(keys) : keys[r] = lo + i - 1})]])

(* groupby(key).size(): one entry per key that occurs, in ascending key   *)
(* order; a key with no row has no entry.                                  *)
groupby_size(keys) ==
    LET ks == python_sorted_set(Range(keys))
    IN  AsSeq([i \in 1..Len(ks) |->
            [key |-> ks[i], size |-> Cardinality({r \in 1..Len(keys) : keys[r] = ks[i]})]])

groupby_min(keys, vals) ==
    LET ks == python_sorted_set(Range(keys))
    IN  AsSeq([i \in 1..Len(ks) |->
                 MinOf({vals[r] : r \in {q \in 1..Len(keys) : keys[q] = ks[i]}})])

groupby_max(keys, vals) ==
    LET ks == python_sorted_set(Range(keys))
    IN  AsSeq([i \in 1..Len(ks) |->
                 MaxOf({vals[r] : r \in {q \in 1..Len(keys) : keys[q] = ks[i]}})])

(* Series.mean(): sum / n, NaN for an empty series.                        *)
series_mean(s) == [nan |-> Len(s) = 0, num |-> SumSeq(s), den |-> Len(s)]

(* Series.std() has ddof = 1: the SAMPLE standard deviation.  The record   *)
(* holds its square, (n*sum(x^2) - sum(x)^2) / (n*(n-1)), NaN for n < 2.   *)
series_std(s) ==
    [nan |-> Len(s) < 2,
     var_num |-> Len(s) * SumSq(s) - SumSeq(s) * SumSeq(s),
     var_den |-> Len(s) * (Len(s) - 1)]

(* Series.mode(): the most frequent values in ascending order; .iloc[0]    *)
(* is the smallest of them.                                                *)
series_mode_first(s) ==
    LET freq(v) == Cardinality({i \in 1..Len(s) : s[i] = v})
    IN  MinOf({v \in Range(s) : \A w \in Range(s) : freq(w) <= freq(v)})

(* Series.nlargest(n) / nsmallest(n), keep='first': repeatedly take the    *)
(* remaining entry with the largest (smallest) size, the earliest in the   *)
(* series among equals.                                                    *)
(* nlargest with keep='last': the latest in the series among equals        *)
RECURSIVE nlargest_keep_last(_, _, _)
nlargest_keep_last(n, sized, left) ==
    IF n = 0 \/ left = {} THEN <<>>
    ELSE LET best == CHOOSE i \in left :
                        \A j \in left : \/ sized[j].size < sized[i].size
                                        \/ (sized[j].size = sized[i].size /\ i >= j)
         IN  <<sized[best].key>> \o nlargest_keep_last(n - 1, sized, left \ {best})

RECURSIVE nlargest(_, _, _)
nlargest(n, sized, left) ==
    IF n = 0 \/ left = {} THEN <<>>
    ELSE LET best == CHOOSE i \in left :
                        \A j \in left : \/ sized[j].size < sized[i].size
                                        \/ (sized[j].size = sized[i].size /\ i <= j)
         IN  <<sized[best].key>> \o nlargest(n - 1, sized, left \ {best})

RECURSIVE nsmallest(_, _, _)
nsmallest(n, sized, left) ==
    IF n = 0 \/ left = {} THEN <<>>
    ELSE LET best == CHOOSE i \in left :
                        \A j \in left : \/ sized[j].size > sized[i].size
                                        \/ (sized[j].size = sized[i].size /\ i <= j)
         IN  <<sized[best].key>> \o nsmallest(n - 1, sized, left \ {best})

sizes_of(sized) == AsSeq([i \in 1..Len(sized) |-> sized[i].size])

to_dict(sized) == [k \in {sized[i].key : i \in 1..Len(sized)} |->
                      (CHOOSE e \in Range(sized) : e.key = k).size]

(* --------------------------- PatternAnalyzer -------------------------- *)
PatternAnalyzer == [daily_patterns |-> <<>>, weekly_patterns |-> <<>>, life_events |-> <<>>]

Return(value, raised, me, df) == [ret |-> value, exc |-> raised, self |-> me, data |-> df]

routine_stats(s) ==
    [average |-> series_mean(s),
     std |-> series_std(s),
     most_common |-> IF Len(s) # 0 THEN series_mode_first(s) ELSE NaN]

(* a guard that forgets the empty collection                               *)
routine_guard_no_empty(df) == ~has_column(df, "datetime")

routine_guard(df) == df_empty(df) \/ ~has_column(df, "datetime")

routine_patterns(df) ==
    LET copy == drop_duplicated_columns(df)
        d1 == set_column(copy, "datetime", col_to_datetime(copy, "datetime"))
        d2 == set_column(d1, "hour", col_dt_hour(d1, "datetime"))
        d3 == set_column(d2, "date", col_dt_date(d2, "datetime"))
        dates == get_column(d3, "date")
        hours == get_column(d3, "hour")
        hourly_activity == groupby_size(hours)
        all == 1..Len(hourly_activity)
    IN  [wake_up_time |-> routine_stats(groupby_min(dates, hours)),
         sleep_time |-> routine_stats(groupby_max(dates, hours)),
         hourly_activity |-> to_dict(hourly_activity),
         peak_hours |-> nlargest(PeakCount, hourly_activity, all),
         quiet_hours |-> nsmallest(PeakCount, hourly_activity, all)]

(* a variant that keeps the first histogram in self.daily_patterns and     *)
(* adds it to every later one                                              *)
analyze_daily_routine_accumulating(me, df) ==
    IF routine_guard(df) THEN Return(<<>>, "", me, df)
    ELSE LET p == routine_patterns(df)
             old == me.daily_patterns
         IN  IF DOMAIN old = {}
             THEN Return(p, "", [me EXCEPT !.daily_patterns = p.hourly_activity], df)
             ELSE Return([p EXCEPT !.hourly_activity =
                             [h \in DOMAIN p.hourly_activity |->
                                 p.hourly_activity[h]
                                 + (IF h \in DOMAIN old THEN old[h] ELSE 0)]],
                         "", me, df)

analyze_daily_routine(me, df) ==
    IF routine_guard(df) THEN Return(<<>>, "", me, df)
    ELSE Return(routine_patterns(df), "", me, df)

(* daily_counts.rolling(window=7, center=True).mean() at position i: the   *)
(* window is i-3 .. i+3; min_periods defaults to the window size, so the   *)
(* value is NaN unless all 7 positions exist.                              *)
rolling_mean_centered(sizes, i) ==
    LET off == (RollingWindow - 1) \div 2
        lo == i + off - RollingWindow + 1
        hi == i + off
    IN  IF lo >= 1 /\ hi <= Len(sizes)
        THEN [nan |-> FALSE, num |-> SumSeq(SubSeq(sizes, lo, hi)), den |-> RollingWindow]
        ELSE [nan |-> TRUE, num |-> 0, den |-> RollingWindow]

(* the same test with >= in place of >                                      *)
volume_deviates_or_equal(count, expected, std) ==
    /\ ~expected.nan
    /\ ~std.nan
    /\ (count * expected.den - expected.num) * (count * expected.den - expected.num) * std.var_den
         >= 4 * expected.den * expected.den * std.var_num

(* the same test with a threshold of one standard deviation                *)
volume_deviates_one_std(count, expected, std) ==
    /\ ~expected.nan
    /\ ~std.nan
    /\ (count * expected.den - expected.num) * (count * expected.den - expected.num) * std.var_den
         > expected.den * expected.den * std.var_num

(* abs(count - expected) > 2 * daily_counts.std(); a comparison with NaN   *)
(* is False.  Both sides are non-negative, so the squares are compared.    *)
volume_deviates(count, expected, std) ==
    /\ ~expected.nan
    /\ ~std.nan
    /\ (count * expected.den - expected.num) * (count * expected.den - expected.num) * std.var_den
         > 4 * expected.den * expected.den * std.var_num

(* (abs(count - expected) / std) squared, as a fraction                   *)
severity_sq(count, expected, std) ==
    [num |-> (count * expected.den - expected.num) * (count * expected.den - expected.num) * std.var_den,
     den |-> expected.den * expected.den * std.var_num]

(* the severity divided by 2 in place of 3                                 *)
confidence_sq_by_two(count, expected, std) ==
    LET s == severity_sq(count, expected, std)
    IN  IF s.num >= 4 * s.den THEN [num |-> 1, den |-> 1] ELSE [num |-> s.num, den |-> 4 * s.den]

(* min(abs(count - expected) / std / 3, 1.0), squared                     *)
confidence_sq(count, expected, std) ==
    LET s == severity_sq(count, expected, std)
    IN  IF s.num >= 9 * s.den THEN [num |-> 1, den |-> 1] ELSE [num |-> s.num, den |-> 9 * s.den]

(* the comparison the wrong way round                                      *)
event_type_inverted(count, expected) ==
    IF count * expected.den < expected.num THEN "high_activity" ELSE "low_activity"

event_type(count, expected) ==
    IF count * expected.den > expected.num THEN "high_activity" ELSE "low_activity"

type_description(t) == IF t = "high_activity" THEN "Unusual high activity detected"
                       ELSE "Unusual low activity detected"

(* a guard without the minimum number of events                            *)
insufficient_data_empty_only(df) == df_empty(df)

insufficient_data(df) == df_empty(df) \/ df_len(df) < MinEvents

volume_events(daily_counts) ==
    LET sizes == sizes_of(daily_counts)
        std == series_std(sizes)
        flagged == {i \in 1..Len(sizes) :
                      volume_deviates(sizes[i], rolling_mean_centered(sizes, i), std)}
        event(i) ==
            LET expected == rolling_mean_centered(sizes, i)
            IN  [date |-> daily_counts[i].key,
                 type |-> event_type(sizes[i], expected),
                 description |-> type_description(event_type(sizes[i], expected)),
                 confidence |-> confidence_sq(sizes[i], expected, std),
                 activity_count |-> sizes[i],
                 expected_count |-> expected]
    IN  AsSeq([k \in 1..Cardinality(flagged) |-> event(python_sorted_set(flagged)[k])])

(* the same loop letting a period run over one missing day                *)
RECURSIVE group_consecutive_over_gap(_, _, _, _)
group_consecutive_over_gap(dates, i, current_period, travel_periods) ==
    IF i > Len(dates)
    THEN IF Len(current_period) # 0 THEN Append(travel_periods, current_period) ELSE travel_periods
    ELSE IF Len(current_period) = 0 \/ dates[i] - current_period[Len(current_period)] <= 2
         THEN group_consecutive_over_gap(dates, i + 1, Append(current_period, dates[i]), travel_periods)
         ELSE group_consecutive_over_gap(dates, i + 1, <<dates[i]>>,
                 IF Len(current_period) >= 1 THEN Append(travel_periods, current_period)
                 ELSE travel_periods)

(* the loop that groups consecutive travel days                           *)
RECURSIVE group_consecutive(_, _, _, _)
group_consecutive(dates, i, current_period, travel_periods) ==
    IF i > Len(dates)
    THEN IF Len(current_period) # 0 THEN Append(travel_periods, current_period) ELSE travel_periods
    ELSE IF Len(current_period) = 0 \/ dates[i] - current_period[Len(current_period)] <= 1
         THEN group_consecutive(dates, i + 1, Append(current_period, dates[i]), travel_periods)
         ELSE group_consecutive(dates, i + 1, <<dates[i]>>,
                 IF Len(current_period) >= 1 THEN Append(travel_periods, current_period)
                 ELSE travel_periods)

(* the Travel dates in the order in which the rows hold them, unsorted     *)
travel_dates_as_met(df) ==
    LET labels == get_column(df, "predicted_activity")
        travel_data == filter_rows(df, {r \in 1..Len(labels) : labels[r] = "Travel"})
        ds == col_dt_date(travel_data, "datetime")
    IN  select_seq_idx(ds, {i \in 1..Len(ds) : \A j \in 1..(i - 1) : ds[j] # ds[i]}, 1)

travel_dates(df) ==
    LET labels == get_column(df, "predicted_activity")
        travel_data == filter_rows(df, {r \in 1..Len(labels) : labels[r] = "Travel"})
    IN  python_sorted_set(Range(col_dt_date(travel_data, "datetime")))

(* a filter that lets a single day through                                 *)
multi_day_any(period) == Len(period) >= 1

multi_day(period) == Len(period) >= MinTravelRun

_detect_travel_patterns(df) ==
    LET periods == group_consecutive(travel_dates(df), 1, <<>>, <<>>)
        event(p) == [date |-> p[1],
                     type |-> "travel_period",
                     description |-> ToString(Len(p)) \o "-day travel period",
                     confidence |-> [num |-> 8, den |-> 10],
                     duration_days |-> Len(p)]
    IN  select_seq_idx([k \in 1..Len(periods) |-> event(periods[k])],
                       {k \in 1..Len(periods) : multi_day(periods[k])}, 1)

(* the events left in the order in which they were appended               *)
in_append_order(events) == events

(* sorted(events, key=lambda x: x['date']): stable                        *)
RECURSIVE sorted_by_date(_)
sorted_by_date(events) ==
    IF Len(events) = 0 THEN <<>>
    ELSE LET front == sorted_by_date(SubSeq(events, 1, Len(events) - 1))
             e == events[Len(events)]
             k == Cardinality({i \in 1..Len(front) : front[i].date <= e.date})
         IN  SubSeq(front, 1, k) \o <<e>> \o SubSeq(front, k + 1, Len(front))

detect_life_events(me, df) ==
    IF insufficient_data(df) THEN Return(<<>>, "", me, df)
    ELSE IF ~has_column(df, "datetime") /\ ~has_column(df, "timestamp")
    THEN Return(<<>>, "KeyError", me, df)
    ELSE
      LET d1 == IF ~has_column(df, "datetime")
                THEN set_column(df, "datetime", col_to_datetime(df, "timestamp"))
                ELSE df
          d2 == set_column(d1, "date", col_dt_date(d1, "datetime"))
          daily_counts == groupby_size(get_column(d2, "date"))
          events == volume_events(daily_counts)
          travel_events == IF has_column(d2, "predicted_activity")
                           THEN _detect_travel_patterns(d2) ELSE <<>>
      IN  Return(sorted_by_date(events \o travel_events), "", me, d2)

(* --------------------------- TimelineBuilder -------------------------- *)
Result(value, raised, df) == [ret |-> value, exc |-> raised, data |-> df]

major_volume_events(daily_counts) ==
    LET sizes == sizes_of(daily_counts)
        std == series_std(sizes)
        flagged == {i \in 1..Len(sizes) :
                      volume_deviates(sizes[i], rolling_mean_centered(sizes, i), std)}
        event(i) ==
            LET expected == rolling_mean_centered(sizes, i)
            IN  [date |-> daily_counts[i].key,
                 type |-> event_type(sizes[i], expected),
                 severity |-> severity_sq(sizes[i], expected, std),
                 description |-> type_description(event_type(sizes[i], expected)),
                 activity_count |-> sizes[i],
                 expected_count |-> expected]
    IN  AsSeq([k \in 1..Cardinality(flagged) |-> event(python_sorted_set(flagged)[k])])

(* value_counts() of one week's labels; NaN labels are not counted        *)
week_label_count(weeks, labels, week, label) ==
    Cardinality({r \in 1..Len(weeks) : weeks[r] = week /\ labels[r] = label})

week_total(weeks, labels, week) ==
    Cardinality({r \in 1..Len(weeks) : weeks[r] = week /\ labels[r] # NaN})

(* sum over the labels of |current share - previous share|, as a fraction *)
distribution_change(weeks, labels, current_week, previous_week) ==
    LET A == week_total(weeks, labels, current_week)
        B == week_total(weeks, labels, previous_week)
        Ax == IF A = 0 THEN 1 ELSE A
        Bx == IF B = 0 THEN 1 ELSE B
        all_activities == SetToSeq(Range(labels) \ {NaN})
        diff(a) == Abs(week_label_count(weeks, labels, current_week, a) * Bx
                       - week_label_count(weeks, labels, previous_week, a) * Ax)
    IN  [num |-> SumSeq(AsSeq([k \in 1..Len(all_activities) |-> diff(all_activities[k])])),
         den |-> Ax * Bx]

_detect_activity_type_changes(df) ==
    IF ~has_column(df, "predicted_activity") THEN Result(<<>>, "", df)
    ELSE
      LET d1 == set_column(df, "week", col_dt_week(df, "datetime"))
          week_col == get_column(d1, "week")
          label_col == get_column(d1, "predicted_activity")
          weeks == python_sorted_set(Range(week_col))
          changes == AsSeq([i \in 1..Len(weeks) |->
                        IF i = 1 THEN [num |-> 0, den |-> 1]
                        ELSE distribution_change(week_col, label_col, weeks[i], weeks[i - 1])])
          change(i) == changes[i]
          event(i) == [date |-> weeks[i] * 7,
                       type |-> "activity_pattern_change",
                       severity |-> change(i),
                       description |-> "Significant change in activity patterns detected"]
      IN  Result(select_seq_idx([i \in 1..Len(weeks) |-> IF i = 1 THEN <<>> ELSE event(i)],
                                {i \in 2..Len(weeks) : 2 * change(i).num > change(i).den}, 1),
                 "", d1)

_detect_travel_from_timeline(df) ==
    IF ~has_column(df, "predicted_activity") THEN <<>>
    ELSE
      LET periods == group_consecutive(travel_dates(df), 1, <<>>, <<>>)
          event(p) == [date |-> p[1],
                       type |-> "travel_period",
                       severity |-> Len(p),
                       description |-> ToString(Len(p)) \o "-day travel period detected",
                       end_date |-> p[Len(p)]]
      IN  select_seq_idx([k \in 1..Len(periods) |-> event(periods[k])],
                         {k \in 1..Len(periods) : multi_day(periods[k])}, 1)

_identify_major_events(df) ==
    IF insufficient_data(df) THEN Result(<<>>, "", df)
    ELSE IF ~has_column(df, "datetime") THEN Result(<<>>, "KeyError", df)
    ELSE
      LET d1 == set_column(df, "date", col_dt_date(df, "datetime"))
          daily_counts == groupby_size(get_column(d1, "date"))
          events == major_volume_events(daily_counts)
          changes == _detect_activity_type_changes(d1)
          travel == _detect_travel_from_timeline(changes.data)
      IN  Result(sorted_by_date(events \o changes.ret \o travel), "", changes.data)

(* np.polyfit(arange(n), values, 1)[0]: the least-squares slope            *)
(*   (n*sum(i*y) - sum(i)*sum(y)) / (n*sum(i*i) - sum(i)^2).                *)
(* polyfit solves the problem in IEEE-754 doubles (scaled Vandermonde      *)
(* matrix, LAPACK SVD); when the exact slope is 0 what it returns is the   *)
(* rounding residue of that solve, whose sign (fp: -1, 0 or 1) depends on  *)
(* the numpy/LAPACK build.  A non-zero exact slope of an integer series is *)
(* far above the rounding error and keeps its sign.                        *)
_calculate_trend(values, fp) ==
    IF Len(values) < 2 THEN [num |-> 0, den |-> 1, residue |-> 0]
    ELSE
      LET n == Len(values)
          x == AsSeq([i \in 1..n |-> i - 1])
          num == n * SumSeq(AsSeq([i \in 1..n |-> x[i] * values[i]])) - SumSeq(x) * SumSeq(values)
      IN  [num |-> num,
           den |-> n * SumSq(x) - SumSeq(x) * SumSeq(x),
           residue |-> IF num = 0 THEN fp ELSE 0]

slope_sign(t) == IF t.num > 0 THEN 1 ELSE IF t.num < 0 THEN -1 ELSE t.residue

trend_direction(t) ==
    IF slope_sign(t) > 0 THEN "increasing"
    ELSE IF slope_sign(t) < 0 THEN "decreasing" ELSE "stable"

(* a gate that lets a series of two points through                         *)
enough_weeks_two(weekly) == Len(weekly) > 1

enough_weeks(weekly) == Len(weekly) > TrendGate

_analyze_activity_trends(df, fp) ==
    IF df_empty(df) THEN Result(<<>>, "", df)
    ELSE IF ~has_column(df, "datetime") THEN Result(<<>>, "KeyError", df)
    ELSE
      LET d1 == set_column(df, "week", col_dt_week(df, "datetime"))
          weekly_counts == groupby_size(get_column(d1, "week"))
          overall == IF enough_weeks(weekly_counts)
                     THEN [overall_trend |-> _calculate_trend(sizes_of(weekly_counts), fp),
                           trend_direction |->
                               trend_direction(_calculate_trend(sizes_of(weekly_counts), fp))]
                     ELSE <<>>
          label_col == IF has_column(d1, "predicted_activity")
                       THEN get_column(d1, "predicted_activity") ELSE <<>>
          labels == Range(label_col) \ {NaN}
          activity_weekly(a) ==
              groupby_size(get_column(
                  filter_rows(d1, {r \in 1..df_len(d1) : label_col[r] = a}), "week"))
          activity_trends ==
              [a \in {b \in labels : enough_weeks(activity_weekly(b))} |->
                  _calculate_trend(sizes_of(activity_weekly(a)), fp)]
          hourly_trends == groupby_size(col_dt_hour(d1, "datetime"))
      IN  IF ~has_column(d1, "predicted_activity") THEN Result(<<>>, "KeyError", d1)
          ELSE Result(overall @@ [activity_specific_trends |-> activity_trends,
                                  hourly_distribution |-> to_dict(hourly_trends)],
                      "", d1)

(* ------------------------------ ingestion ----------------------------- *)
RequiredColumns == <<"text", "timestamp">>

validate_data(df, required_columns) ==
    \A k \in 1..Len(required_columns) : has_column(df, required_columns[k])

missing_required(df) == ~validate_data(df, RequiredColumns)

(* _clean_text / _preprocess_text on the sample texts: whitespace is       *)
(* normalised and stripped, so a blank text becomes the empty text.        *)
_clean_text(text) == IF text = "  " THEN "" ELSE text

_extract_timezone(text) == "None"

col_clean_text(df, c) ==
    LET vals == get_column(df, c) IN AsSeq([r \in 1..Len(vals) |-> _clean_text(vals[r])])

col_extract_timezone(df, c) ==
    LET vals == get_column(df, c) IN AsSeq([r \in 1..Len(vals) |-> _extract_timezone(vals[r])])

preprocess_dataframe(df) ==
    IF df_empty(df) THEN Result(df, "", df)
    ELSE IF missing_required(df) THEN Result(<<>>, "ValueError", df)
    ELSE
      LET d1 == set_column(df, "timestamp", col_to_datetime(df, "timestamp"))
          d2 == set_column(d1, "datetime", get_column(d1, "timestamp"))
          d3 == set_column(d2, "hour", col_dt_hour(d2, "datetime"))
          d4 == set_column(d3, "day_of_week", col_dt_day_name(d3, "datetime"))
          d5 == set_column(d4, "text", col_clean_text(d4, "text"))
          d6 == set_column(d5, "timezone", col_extract_timezone(d5, "text"))
      IN  Result(d6, "", df)

_determine_category_by_time(hour) ==
    IF 6 <= hour /\ hour < 9 THEN "daily_routine"
    ELSE IF 9 <= hour /\ hour < 22 THEN "general_activities"
    ELSE "daily_routine"

(* ACTIVITY_LABELS restricted to the two labels of the model               *)
activity_labels(category) ==
    IF category = "general_activities" THEN {"Work", "Travel"} ELSE {"Work"}

(* classify_single_text: api is the label the hosted model ranks first, or *)
(* "fail" when the request fails; the text carries its temporal prefix and *)
(* is never blank.                                                         *)
classify_single_text(api, hour, day_of_week) ==
    IF api = "fail"
    THEN [error |-> "Failed to get classification from API",
          hour |-> hour, day_of_week |-> day_of_week]
    ELSE [predicted_activity |-> api, confidence |-> 90,
          hour |-> hour, day_of_week |-> day_of_week]

SuccessKeys == <<"predicted_activity", "confidence", "hour", "day_of_week">>
FailureKeys == <<"error", "hour", "day_of_week">>

(* pd.DataFrame(list of dicts): the columns are the keys in the order of   *)
(* their first appearance, a missing key gives NaN.                        *)
RECURSIVE dict_columns(_, _, _)
dict_columns(dicts, i, cols) ==
    IF i > Len(dicts) THEN cols
    ELSE LET keys == IF "error" \in DOMAIN dicts[i] THEN FailureKeys ELSE SuccessKeys
             fresh == {k \in 1..Len(keys) : keys[k] \notin Range(cols)}
         IN  dict_columns(dicts, i + 1, cols \o select_seq_idx(keys, fresh, 1))

frame_of_dicts(dicts) ==
    LET cols == dict_columns(dicts, 1, <<>>)
    IN  [cols |-> cols,
         rows |-> AsSeq([r \in 1..Len(dicts) |->
                     AsSeq([i \in 1..Len(cols) |->
                        IF cols[i] \in DOMAIN dicts[r] THEN dicts[r][cols[i]] ELSE NaN])])]

concat_columns(a, b) ==
    [cols |-> a.cols \o b.cols,
     rows |-> AsSeq([r \in 1..Len(a.rows) |-> a.rows[r] \o b.rows[r]])]

classify_with_context(df, api) ==
    IF df_empty(df) THEN Result(df, "", df)
    ELSE IF missing_required(df) THEN Result(<<>>, "ValueError", df)
    ELSE
      LET d1 == set_column(df, "datetime", col_to_datetime(df, "timestamp"))
          d2 == set_column(d1, "hour", col_dt_hour(d1, "datetime"))
          d3 == set_column(d2, "day_of_week", col_dt_day_name(d2, "datetime"))
          classifications ==
              AsSeq([r \in 1..df_len(d3) |->
                  classify_single_text(api[r], get_column(d3, "hour")[r],
                                       get_column(d3, "day_of_week")[r])])
      IN  Result(concat_columns(d3, frame_of_dicts(classifications)), "", d3)

(* the answers the hosted model can give for the rows of df                *)
ApiAnswers(df) ==
    IF df_empty(df) \/ missing_required(df) THEN {<<>>}
    ELSE LET hours == col_dt_hour(set_column(df, "timestamp", col_to_datetime(df, "timestamp")), "timestamp")
         IN  {a \in [1..df_len(df) -> {"Work", "Travel", "fail"}] :
                 \A r \in 1..df_len(df) :
                     a[r] \in activity_labels(_determine_category_by_time(hours[r])) \cup {"fail"}}

(* --------------------------- event collections ------------------------ *)
ClassifiedColumns ==
    <<"text", "timestamp", "datetime", "hour", "day_of_week",
      "predicted_activity", "confidence", "hour", "day_of_week">>

(* one successfully classified event, as classify_with_context leaves it   *)
classified_row(day, hour, label) ==
    LET t == to_datetime(<<"str", day, hour>>)
    IN  <<"t", <<"str", day, hour>>, t, dt_hour(t), dt_day_name(t),
          label, 90, dt_hour(t), dt_day_name(t)>>

RECURSIVE Flatten(_)
Flatten(ss) == IF Len(ss) = 0 THEN <<>> ELSE Head(ss) \o Flatten(Tail(ss))

ClassifiedFrame(rows) == DataFrame(ClassifiedColumns, rows)

(* n consecutive days, counts[d] events on day d                           *)
VolumeFrame(counts) ==
    ClassifiedFrame(Flatten(AsSeq([d \in 1..Len(counts) |->
        AsSeq([k \in 1..counts[d] |-> classified_row(d - 1, (8 + k) % 24, "Work")])])))

(* every day has 1 event or k events, for one k in 2..count               *)
VolumeFrames(days, count) ==
    UNION {{VolumeFrame(c) : c \in [1..n -> {1, k}]} : n \in 0..days, k \in 2..count}

(* one event on each day 0..last, labelled Travel on the days of   *)
(* S (at most `most` days), with a second Travel event on the even days   *)
(* of S                                                                    *)
TravelFrame(S, last) ==
    ClassifiedFrame(Flatten(AsSeq([d \in 1..(last + 1) |->
        IF (d - 1) \in S
        THEN IF (d - 1) % 2 = 0
             THEN <<classified_row(d - 1, 9 + (d % 3), "Travel"),
                    classified_row(d - 1, 20, "Travel")>>
             ELSE <<classified_row(d - 1, 9 + (d % 3), "Travel")>>
        ELSE <<classified_row(d - 1, 9 + (d % 3), "Work")>>])))

TravelFrames(last, most) ==
    {TravelFrame(S, last) : S \in {T \in SUBSET (0..last) : Cardinality(T) <= most}}

(* weekly[w] Work events in week w, and one Travel event in the weeks of T *)
(* (the first weeks, or none)                                              *)
TrendFrame(weekly, T) ==
    ClassifiedFrame(Flatten(AsSeq([w \in 1..Len(weekly) |->
        AsSeq([k \in 1..weekly[w] |-> classified_row(7 * (w - 1) + ((k - 1) % 7), 10, "Work")])
        \o (IF w \in T THEN <<classified_row(7 * (w - 1) + 6, 15, "Travel")>> ELSE <<>>)])))

ExampleWeekly == {<<1, 2, 3, 4, 5>>, <<5, 5, 5>>}

TrendFrames(weeks, weekly) ==
    {TrendFrame(y, 1..k) : y \in [1..weeks -> 0..weekly], k \in 0..weeks}
    \cup {TrendFrame(y, {}) : y \in ExampleWeekly}

(* uploaded files: any subset of the columns text, timestamp, datetime and *)
(* up to MaxRawRows records                                                *)
RawRecords == {<<"meeting", <<"str", 0, 9>>>>, <<"  ", <<"str", 1, 7>>>>, <<"flight", <<"str", 8, 23>>>>}

RawColumnSets == SUBSET {1, 2, 3}

RawFrame(keep, recs) ==
    [cols |-> select_seq_idx(<<"text", "timestamp", "datetime">>, keep, 1),
     rows |-> AsSeq([r \in 1..Len(recs) |->
                 select_seq_idx(<<recs[r][1], recs[r][2], recs[r][2]>>, keep, 1)])]

RawFrames(most) ==
    {RawFrame(keep, recs) :
        keep \in RawColumnSets,
        recs \in UNION {[1..n -> RawRecords] : n \in 0..most}}

(* ------------------------------- actions ------------------------------ *)
AnalysisOps == {"analyze_daily_routine", "detect_life_events", "_detect_travel_patterns",
                "_identify_major_events", "_detect_travel_from_timeline",
                "_analyze_activity_trends"}

IngestOps == {"preprocess_dataframe", "classify_with_context"}

RoundingResidues == {-1, 0, 1}

InitWith(frames) ==
    /\ \/ data \in RawFrames(MaxRawRows) /\ stage = "file"
       \/ data \in frames /\ stage = "classified"
    /\ self = PatternAnalyzer
    /\ op = "init"
    /\ ret = <<>>
    /\ exc = ""
    /\ first_patterns = <<>>
    /\ adr_calls = 0

(* a session starts from an uploaded file or from a classified collection  *)
SessionFrames == TravelFrames(MaxTravelDay, MaxSessionTravel)
                   \cup VolumeFrames(MaxSessionDays, 2)

Init == InitWith(SessionFrames)

InitClassified(frames) ==
    /\ data \in frames
    /\ stage = "classified"
    /\ self = PatternAnalyzer
    /\ op = "init"
    /\ ret = <<>>
    /\ exc = ""
    /\ first_patterns = <<>>
    /\ adr_calls = 0

(* the series of 15 days with 5 events each but 50 on the 8th day          *)
ExampleDailyCounts == <<5, 5, 5, 5, 5, 5, 5, 50, 5, 5, 5, 5, 5, 5, 5>>

InitVolume ==
    InitClassified(VolumeFrames(MaxDays, MaxCount) \cup {VolumeFrame(ExampleDailyCounts)})
InitTravel == InitClassified(TravelFrames(MaxTravelDay, MaxTravelDates))
InitTrend == InitClassified(TrendFrames(MaxWeeks, MaxWeekly))

(* show_data_upload: validate_data, then preprocess_dataframe              *)
Upload ==
    /\ stage = "file"
    /\ op' = "show_data_upload"
    /\ IF ~validate_data(data, RequiredColumns)
       THEN /\ stage' = "rejected"
            /\ ret' = <<>>
            /\ exc' = ""
            /\ UNCHANGED data
       ELSE \E r \in {preprocess_dataframe(data)} :
                /\ stage' = IF r.exc = "" THEN "uploaded" ELSE "rejected"
                /\ ret' = r.ret
                /\ exc' = r.exc
                /\ data' = IF r.exc = "" THEN r.ret ELSE r.data
    /\ UNCHANGED <<self, first_patterns, adr_calls>>

(* a direct call of DataPreprocessor.preprocess_dataframe                  *)
Preprocess ==
    /\ stage = "file"
    /\ \E r \in {preprocess_dataframe(data)} :
           /\ op' = "preprocess_dataframe"
           /\ stage' = IF r.exc = "" THEN "uploaded" ELSE "failed"
           /\ ret' = r.ret
           /\ exc' = r.exc
           /\ data' = IF r.exc = "" THEN r.ret ELSE r.data
    /\ UNCHANGED <<self, first_patterns, adr_calls>>

(* show_timeline_analysis: classified_df = classify_with_context(df)       *)
Classify ==
    /\ stage \in {"file", "uploaded"}
    /\ \E api \in ApiAnswers(data) :
         \E r \in {classify_with_context(data, api)} :
             /\ op' = "classify_with_context"
             /\ stage' = IF r.exc = "" THEN "classified" ELSE "failed"
             /\ ret' = r.ret
             /\ exc' = r.exc
             /\ data' = IF r.exc = "" THEN r.ret ELSE r.data
    /\ UNCHANGED <<self, first_patterns, adr_calls>>

AnalyzeDailyRoutine ==
    /\ stage = "classified"
    /\ \E r \in {analyze_daily_routine(self, data)} :
           /\ op' = "analyze_daily_routine"
           /\ ret' = r.ret
           /\ exc' = r.exc
           /\ self' = r.self
           /\ data' = r.data
           /\ first_patterns' = IF adr_calls = 0 THEN <<r.ret>> ELSE first_patterns
           /\ adr_calls' = IF adr_calls < 2 THEN adr_calls + 1 ELSE adr_calls
    /\ UNCHANGED stage

DetectLifeEvents ==
    /\ stage = "classified"
    /\ \E r \in {detect_life_events(self, data)} :
           /\ op' = "detect_life_events"
           /\ ret' = r.ret
           /\ exc' = r.exc
           /\ self' = r.self
           /\ data' = r.data
    /\ UNCHANGED <<stage, first_patterns, adr_calls>>

DetectTravelPatterns ==
    /\ stage = "classified"
    /\ ~df_empty(data)
    /\ has_column(data, "predicted_activity")
    /\ has_column(data, "datetime")
    /\ op' = "_detect_travel_patterns"
    /\ ret' = _detect_travel_patterns(data)
    /\ exc' = ""
    /\ UNCHANGED <<data, self, stage, first_patterns, adr_calls>>

DetectTravelFromTimeline ==
    /\ stage = "classified"
    /\ ~df_empty(data)
    /\ has_column(data, "datetime")
    /\ op' = "_detect_travel_from_timeline"
    /\ ret' = _detect_travel_from_timeline(data)
    /\ exc' = ""
    /\ UNCHANGED <<data, self, stage, first_patterns, adr_calls>>

IdentifyMajorEvents ==
    /\ stage = "classified"
    /\ \E r \in {_identify_major_events(data)} :
           /\ op' = "_identify_major_events"
           /\ ret' = r.ret
           /\ exc' = r.exc
           /\ data' = r.data
    /\ UNCHANGED <<self, stage, first_patterns, adr_calls>>

AnalyzeActivityTrends ==
    /\ stage = "classified"
    /\ \E fp \in RoundingResidues :
         \E r \in {_analyze_activity_trends(data, fp)} :
             /\ op' = "_analyze_activity_trends"
             /\ ret' = r.ret
             /\ exc' = r.exc
             /\ data' = r.data
    /\ UNCHANGED <<self, stage, first_patterns, adr_calls>>

Next ==
    \/ Upload
    \/ Preprocess
    \/ Classify
    \/ AnalyzeDailyRoutine
    \/ DetectLifeEvents
    \/ DetectTravelPatterns
    \/ DetectTravelFromTimeline
    \/ IdentifyMajorEvents
    \/ AnalyzeActivityTrends

NextVolume == DetectLifeEvents \/ IdentifyMajorEvents
NextTravel == DetectTravelPatterns \/ DetectTravelFromTimeline
NextTrend == AnalyzeActivityTrends

Spec == Init /\ [][Next]_vars
SpecVolume == InitVolume /\ [][NextVolume]_vars
SpecTravel == InitTravel /\ [][NextTravel]_vars
SpecTrend == InitTrend /\ [][NextTrend]_vars

TypeOK ==
    /\ stage \in {"file", "uploaded", "classified", "rejected", "failed", "client"}
    /\ op \in {"init", "show_data_upload", "generate_insights", "classify_activity",
              "query_model", "classify_batch"} \cup IngestOps \cup AnalysisOps
    /\ exc \in {"", "ValueError", "KeyError"}
    /\ adr_calls \in 0..2

(* ------------------- what the collection holds, by sets --------------- *)
VolumeTypes == {"high_activity", "low_activity"}
VolumeOps == {"detect_life_events", "_identify_major_events"}

EventTimes(df) == get_column(df, "datetime")

EventDates(df) == {dt_date(EventTimes(df)[r]) : r \in 1..df_len(df)}

CountOn(df, d) == Cardinality({r \in 1..df_len(df) : dt_date(EventTimes(df)[r]) = d})

DateRank(df, d) == Cardinality({x \in EventDates(df) : x < d})

(* the dates at most 3 places from d among the dates that have events      *)
CenteredWindow(df, d) ==
    {x \in EventDates(df) : Abs(DateRank(df, x) - DateRank(df, d)) <= 3}

SumCounts(df, D) ==
    LET ds == SetToSeq(D) IN SumSeq(AsSeq([k \in 1..Len(ds) |-> CountOn(df, ds[k])]))

SumSqCounts(df, D) ==
    LET ds == SetToSeq(D)
    IN  SumSeq(AsSeq([k \in 1..Len(ds) |-> CountOn(df, ds[k]) * CountOn(df, ds[k])]))

(* |count(d) - mean of the 7-date window| > 2 * population std of all the  *)
(* daily counts:  (7c - S7)^2 * N^2 > 4 * 49 * (N * sum c^2 - (sum c)^2)    *)
BeyondTwoPopulationStd(df, d) ==
    LET W == CenteredWindow(df, d)
        N == Cardinality(EventDates(df))
        dev == 7 * CountOn(df, d) - SumCounts(df, W)
        S == SumCounts(df, EventDates(df))
    IN  /\ Cardinality(W) = 7
        /\ dev * dev * N * N > 4 * 49 * (N * SumSqCounts(df, EventDates(df)) - S * S)

(* C1: a high_activity / low_activity record is emitted for a date only if *)
(* that date's count differs from its centered 7-date rolling mean by more *)
(* than twice the population standard deviation of all the daily counts.   *)
C1_VolumeRecordOnlyBeyondTwoStd ==
    op \in VolumeOps =>
        \A k \in 1..Len(ret) :
            ret[k].type \in VolumeTypes =>
                /\ ret[k].date \in EventDates(data)
                /\ ret[k].activity_count = CountOn(data, ret[k].date)
                /\ ret[k].expected_count.num = SumCounts(data, CenteredWindow(data, ret[k].date))
                /\ BeyondTwoPopulationStd(data, ret[k].date)

C1_Witness ==
    /\ op = "detect_life_events"
    /\ \E k \in 1..Len(ret) :
          ret[k].type = "high_activity" /\ BeyondTwoPopulationStd(data, ret[k].date)

(* C2: with fewer than 10 events the volume-anomaly detection returns the  *)
(* empty list, whatever the daily counts are.                              *)
C2_FewEventsNoRecord ==
    (op \in VolumeOps /\ df_len(data) < 10) => (Len(ret) = 0 /\ exc = "")

C2_Witness ==
    /\ op = "detect_life_events"
    /\ df_len(data) < 10
    /\ \E d \in EventDates(data) : BeyondTwoPopulationStd(data, d)
    /\ Len(ret) = 0

(* the Travel dates and their maximal runs of consecutive days             *)
TravelDateSet(df) ==
    {dt_date(EventTimes(df)[r]) :
        r \in {q \in 1..df_len(df) : get_column(df, "predicted_activity")[q] = "Travel"}}

RunLength(T, d) == Cardinality({x \in T : x >= d /\ \A y \in d..x : y \in T})

MaximalRuns(T) ==
    {<<d, RunLength(T, d)>> : d \in {x \in T : (x - 1) \notin T /\ RunLength(T, x) >= 2}}

TravelOps == {"_detect_travel_patterns", "_detect_travel_from_timeline"}

RunOf(e) == IF op = "_detect_travel_patterns" THEN <<e.date, e.duration_days>>
            ELSE <<e.date, e.end_date - e.date + 1>>

(* C3: interval merging emits exactly one event per maximal run of at      *)
(* least 2 consecutive Travel dates, dated at the run's first date and     *)
(* with the run's number of dates as duration; dates 0,1,2,9 give one      *)
(* event at 0 with duration 3.                                             *)
C3_OneEventPerMaximalRun ==
    op \in TravelOps =>
        /\ {RunOf(ret[k]) : k \in 1..Len(ret)} = MaximalRuns(TravelDateSet(data))
        /\ Len(ret) = Cardinality(MaximalRuns(TravelDateSet(data)))
        /\ \A k \in 1..Len(ret) :
              IF op = "_detect_travel_patterns" THEN ret[k].duration_days >= 2
              ELSE ret[k].severity = ret[k].end_date - ret[k].date + 1
        /\ TravelDateSet(data) = {0, 1, 2, 9} =>
              (Len(ret) = 1 /\ RunOf(ret[1]) = <<0, 3>>)

C3_Witness ==
    /\ op = "_detect_travel_patterns"
    /\ TravelDateSet(data) = {0, 1, 2, 9}
    /\ Len(ret) = 1
    /\ ret[1].duration_days = 3

(* the weekly buckets, overall and of one label                            *)
WeekSet(df) == {dt_week(EventTimes(df)[r]) : r \in 1..df_len(df)}

LabelSet(df) == Range(get_column(df, "predicted_activity")) \ {NaN}

LabelWeekSet(df, a) ==
    {dt_week(EventTimes(df)[r]) :
        r \in {q \in 1..df_len(df) : get_column(df, "predicted_activity")[q] = a}}

SpecificTrends == IF "activity_specific_trends" \in DOMAIN ret
                  THEN DOMAIN ret.activity_specific_trends ELSE {}

(* C4: an overall trend is reported iff the events fall into at least 3    *)
(* weekly buckets, and a label's trend iff that label's events do.         *)
C4_TrendOnlyFromThreeWeeks ==
    (op = "_analyze_activity_trends" /\ exc = "") =>
        /\ ("overall_trend" \in DOMAIN ret) <=> (Cardinality(WeekSet(data)) >= 3)
        /\ ("trend_direction" \in DOMAIN ret) <=> (Cardinality(WeekSet(data)) >= 3)
        /\ SpecificTrends \subseteq LabelSet(data)
        /\ \A a \in LabelSet(data) :
              (a \in SpecificTrends) <=> (Cardinality(LabelWeekSet(data, a)) >= 3)

C4_Witness ==
    /\ op = "_analyze_activity_trends"
    /\ "overall_trend" \in DOMAIN ret
    /\ \E a \in LabelSet(data) :
          Cardinality(LabelWeekSet(data, a)) = 2 /\ a \notin SpecificTrends
    /\ \E a \in LabelSet(data) : a \in SpecificTrends

(* the weekly counts in week order, and n*sum(i*y[i]) - sum(i)*sum(y[i])   *)
WeeklySeries(df) ==
    LET ws == python_sorted_set(WeekSet(df))
    IN  AsSeq([k \in 1..Len(ws) |->
                 Cardinality({r \in 1..df_len(df) : dt_week(EventTimes(df)[r]) = ws[k]})])

LeastSquaresNumerator(y) ==
    LET n == Len(y)
    IN  n * SumSeq(AsSeq([i \in 1..n |-> (i - 1) * y[i]]))
          - SumSeq(AsSeq([i \in 1..n |-> i - 1])) * SumSeq(y)

Sign(v) == IF v > 0 THEN 1 ELSE IF v < 0 THEN -1 ELSE 0

DirectionOf(v) == IF v > 0 THEN "increasing" ELSE IF v < 0 THEN "decreasing" ELSE "stable"

PatternKeys == {"wake_up_time", "sleep_time", "hourly_activity", "peak_hours", "quiet_hours"}

TrendKeys == {"overall_trend", "trend_direction", "activity_specific_trends",
              "hourly_distribution"}

(* C6: every top-level key of the analysis output is present for every     *)
(* input; an analysis without enough data leaves its keys present with an  *)
(* empty value.                                                            *)
C6_EveryKeyAlwaysPresent ==
    /\ (op = "analyze_daily_routine" /\ exc = "") => PatternKeys \subseteq DOMAIN ret
    /\ (op = "_analyze_activity_trends" /\ exc = "") => TrendKeys \subseteq DOMAIN ret

(* C7: on an empty collection analyze_daily_routine returns an empty       *)
(* structure and detect_life_events an empty list, and neither raises.     *)
C7_EmptyInputEmptyOutput ==
    (op \in {"analyze_daily_routine", "detect_life_events"} /\ df_empty(data)) =>
        (DOMAIN ret = {} /\ exc = "")

C7_Witness ==
    /\ op = "analyze_daily_routine"
    /\ df_empty(data)
    /\ has_column(data, "datetime")
    /\ DOMAIN ret = {}
    /\ exc = ""

(* C8: ingesting a collection, whatever its number of records, in which    *)
(* 'text' or 'timestamp' is absent from every record fails with a          *)
(* validation error and yields no processed collection.                    *)
C8_MissingFieldAlwaysRejected ==
    [][(op' \in IngestOps \cup {"show_data_upload"} /\ missing_required(data))
          => stage' \in {"rejected", "failed"}]_vars

(* C9: no analysis function changes the caller's collection: after a call  *)
(* it has the same fields and the same values as before.                   *)
C9_CallerCollectionUnchanged ==
    [][op' \in AnalysisOps => data' = data]_vars

SharedOps == {"analyze_daily_routine", "detect_life_events", "_detect_travel_patterns",
              "_analyze_activity_trends"}

(* the columns an analysis assigns on the frame it was passed             *)
fields_written(before, after) ==
    {c \in Range(after.cols) :
        ~has_column(before, c) \/ get_column(before, c) # get_column(after, c)}

(* the columns of the passed frame an analysis reads: data.copy() and the  *)
(* boolean-mask selections data[...] read every column, the guards none    *)
fields_read(o, df) ==
    IF o = "analyze_daily_routine"
    THEN (IF routine_guard(df) THEN {} ELSE Range(df.cols))
    ELSE IF o = "detect_life_events"
    THEN (IF insufficient_data(df) THEN {}
          ELSE IF has_column(df, "predicted_activity") THEN Range(df.cols) \cup {"date"}
          ELSE {"datetime", "timestamp", "date"})
    ELSE IF o = "_detect_travel_patterns"
    THEN (IF df_empty(df) THEN {} ELSE Range(df.cols))
    ELSE (IF df_empty(df) THEN {} ELSE Range(df.cols) \cup {"week"})

(* the frame an analysis leaves when it runs on df                         *)
frame_after(o, df) ==
    IF o = "detect_life_events" THEN detect_life_events(PatternAnalyzer, df).data
    ELSE IF o = "_analyze_activity_trends" THEN _analyze_activity_trends(df, 0).data
    ELSE df

(* the snapshot as it was handed over: without the columns analyses add    *)
fresh_snapshot(df) ==
    LET keep == {i \in 1..Len(df.cols) : df.cols[i] \notin {"date", "week"}}
    IN  [cols |-> select_seq_idx(df.cols, keep, 1),
         rows |-> AsSeq([r \in 1..Len(df.rows) |-> select_seq_idx(df.rows[r], keep, 1)])]

(* the results an analysis can return when it runs alone on df             *)
alone_results(o, df) ==
    IF o = "analyze_daily_routine" THEN {analyze_daily_routine(PatternAnalyzer, df).ret}
    ELSE IF o = "detect_life_events" THEN {detect_life_events(PatternAnalyzer, df).ret}
    ELSE IF o = "_detect_travel_patterns" THEN {_detect_travel_patterns(df)}
    ELSE {_analyze_activity_trends(df, fp).ret : fp \in RoundingResidues}

(* C11: in every order of the four analyses on one shared snapshot each    *)
(* returns what it returns alone on a fresh copy, and no analysis writes a *)
(* field of the snapshot that another analysis reads or writes.            *)
C11_SharedSnapshotNoContention ==
    [][op' \in SharedOps =>
         /\ ret' \in alone_results(op', fresh_snapshot(data))
         /\ \A o \in SharedOps \ {op'} :
               fields_written(data, data')
                 \cap (fields_read(o, data') \cup fields_written(data', frame_after(o, data')))
               = {}]_vars

(* ------------- life events of collections that hold Travel ------------ *)
(* collections of 1 .. last+1 days with Travel on some of the days         *)
LifeEventFrames(last, most) == UNION {TravelFrames(l, most) : l \in 0..last}

InitLifeEvents == InitClassified(LifeEventFrames(MaxTravelDay, MaxTravelDates))

SpecLifeEvents == InitLifeEvents /\ [][NextVolume]_vars

TravelRecords == {k \in 1..Len(ret) : ret[k].type = "travel_period"}

(* C12: with fewer than 10 events only the volume-anomaly part is empty;   *)
(* Travel events on at least 2 consecutive dates still give a              *)
(* travel_period event in the life-event output.                           *)
C12_TravelSurvivesFewEvents ==
    (/\ op \in VolumeOps
     /\ df_len(data) < 10
     /\ MaximalRuns(TravelDateSet(data)) # {})
        => /\ TravelRecords # {}
           /\ \A k \in 1..Len(ret) : ret[k].type \notin VolumeTypes

(* ------------------------ peak and quiet hours ------------------------ *)
(* counts[i] events at hour 5 + i, the k-th of them on day k - 1           *)
RoutineFrame(counts) ==
    ClassifiedFrame(Flatten(AsSeq([i \in 1..Len(counts) |->
        AsSeq([k \in 1..counts[i] |-> classified_row(k - 1, 5 + i, "Work")])])))

RoutineFrames(hours, most) == {RoutineFrame(c) : c \in [1..hours -> 0..most]}

InitRoutine == InitClassified(RoutineFrames(MaxHours, MaxPerHour))

NextRoutine == AnalyzeDailyRoutine

SpecRoutine == InitRoutine /\ [][NextRoutine]_vars

HourCount(df, h) ==
    Cardinality({r \in 1..df_len(df) : dt_hour(to_datetime(EventTimes(df)[r])) = h})

(* a ranks before b: larger (smaller) count first, lower hour among equals *)
RanksBefore(a, b, hist, largest) ==
    \/ (IF largest THEN hist[a] > hist[b] ELSE hist[a] < hist[b])
    \/ (hist[a] = hist[b] /\ a < b)

(* p lists, in rank order, the first 3 hours of the histogram             *)
IsSelection(p, hist, largest) ==
    /\ Range(p) \subseteq DOMAIN hist
    /\ Len(p) = (IF Cardinality(DOMAIN hist) < 3 THEN Cardinality(DOMAIN hist) ELSE 3)
    /\ \A i \in 1..Len(p) : \A j \in (i + 1)..Len(p) : RanksBefore(p[i], p[j], hist, largest)
    /\ \A h \in DOMAIN hist \ Range(p) : \A i \in 1..Len(p) : RanksBefore(p[i], h, hist, largest)

(* C13: peak_hours are the 3 hours of the hourly histogram with the        *)
(* largest counts, quiet_hours the 3 with the smallest; among equal        *)
(* counts the lower hour comes first.                                      *)
C13_PeakQuietByCountThenHour ==
    (op = "analyze_daily_routine" /\ DOMAIN ret # {}) =>
        /\ \A h \in DOMAIN ret.hourly_activity : ret.hourly_activity[h] = HourCount(data, h)
        /\ \A h \in 0..23 : HourCount(data, h) > 0 => h \in DOMAIN ret.hourly_activity
        /\ IsSelection(ret.peak_hours, ret.hourly_activity, TRUE)
        /\ IsSelection(ret.quiet_hours, ret.hourly_activity, FALSE)

C13_Witness ==
    /\ op = "analyze_daily_routine"
    /\ DOMAIN ret # {}
    /\ Cardinality(DOMAIN ret.hourly_activity) > 3
    /\ \E h \in DOMAIN ret.hourly_activity \ Range(ret.peak_hours) :
          ret.hourly_activity[h] = ret.hourly_activity[ret.peak_hours[3]]
    /\ \E h \in DOMAIN ret.hourly_activity \ Range(ret.quiet_hours) :
          ret.hourly_activity[h] = ret.hourly_activity[ret.quiet_hours[3]]

(* ----------------------- the 15-day example --------------------------- *)
DailyCounts(df) ==
    LET ds == python_sorted_set(EventDates(df))
    IN  AsSeq([k \in 1..Len(ds) |-> CountOn(df, ds[k])])

VolumeRecords == {k \in 1..Len(ret) : ret[k].type \in VolumeTypes}

(* C14: for 15 daily counts of 5 with 50 at the 8th position exactly the   *)
(* 8th day is flagged, as high_activity, and no other day.                 *)
C14_OnlyTheSpikeIsFlagged ==
    (op \in VolumeOps /\ DailyCounts(data) = ExampleDailyCounts) =>
        /\ Cardinality(VolumeRecords) = 1
        /\ \A k \in VolumeRecords :
              /\ ret[k].type = "high_activity"
              /\ ret[k].date = python_sorted_set(EventDates(data))[8]
              /\ ret[k].activity_count = 50

C14_Witness ==
    /\ op = "detect_life_events"
    /\ DailyCounts(data) = ExampleDailyCounts
    /\ Cardinality(VolumeRecords) = 1

(* C15: the list detect_life_events returns is in non-decreasing date      *)
(* order, also when it holds volume records and travel-period records.     *)
C15_LifeEventsInDateOrder ==
    op \in VolumeOps =>
        \A i \in 1..Len(ret) : \A j \in (i + 1)..Len(ret) : ret[i].date <= ret[j].date

C15_Witness ==
    /\ op = "detect_life_events"
    /\ \E i \in TravelRecords : \E j \in VolumeRecords : i < j /\ ret[i].date < ret[j].date

(* ------------------------- generate_insights -------------------------- *)
EarlyRiser == "You're an early riser! Most activity starts before 7 AM."
LateStarter == "You tend to start your day later, with activity beginning after 9 AM."
RegularMorning == "You have a regular morning routine, starting around 7-9 AM."

(* a sleep_pattern that counts 7 and 9 among the early and the late        *)
sleep_pattern_inclusive(wake_up) ==
    IF ~wake_up.nan /\ wake_up.num <= EarlyRiserHour * wake_up.den THEN EarlyRiser
    ELSE IF ~wake_up.nan /\ wake_up.num >= LateStartHour * wake_up.den THEN LateStarter
    ELSE RegularMorning

(* if wake_up < 7 ... elif wake_up > 9 ... else; a comparison with NaN is  *)
(* False                                                                   *)
sleep_pattern(wake_up) ==
    IF ~wake_up.nan /\ wake_up.num < EarlyRiserHour * wake_up.den THEN EarlyRiser
    ELSE IF ~wake_up.nan /\ wake_up.num > LateStartHour * wake_up.den THEN LateStarter
    ELSE RegularMorning

activity_level(hourly_activity) ==
    LET total_hours == Cardinality({h \in DOMAIN hourly_activity : hourly_activity[h] > 0})
    IN  IF total_hours > HighActivityHours
        THEN "You maintain high activity levels throughout most of the day."
        ELSE IF total_hours < LowActivityHours
        THEN "Your activity is concentrated in fewer hours of the day."
        ELSE "You have moderate activity spread across the day."

(* a summary that counts every life event                                  *)
high_activity_events_any(life_events) == 1..Len(life_events)

high_activity_events(life_events) ==
    {k \in 1..Len(life_events) : life_events[k].type = "high_activity"}

life_events_summary(n) ==
    "Detected " \o ToString(n) \o " periods of unusually high activity."

generate_insights(patterns, life_events) ==
    (IF "wake_up_time" \in DOMAIN patterns
     THEN [sleep_pattern |-> sleep_pattern(patterns.wake_up_time.average)] ELSE <<>>)
    @@ (IF "hourly_activity" \in DOMAIN patterns
        THEN [activity_level |-> activity_level(patterns.hourly_activity)] ELSE <<>>)
    @@ (IF Len(life_events) # 0 /\ high_activity_events(life_events) # {}
        THEN [life_events |->
                 life_events_summary(Cardinality(high_activity_events(life_events)))]
        ELSE <<>>)

(* show_timeline_analysis: patterns, life_events and insights of one       *)
(* classified collection                                                   *)
GenerateInsights ==
    /\ stage = "classified"
    /\ \E p \in {analyze_daily_routine(self, data)} :
         \E e \in {detect_life_events(p.self, p.data)} :
             /\ e.exc = ""
             /\ op' = "generate_insights"
             /\ ret' = [patterns |-> p.ret,
                        life_events |-> e.ret,
                        insights |-> generate_insights(p.ret, e.ret)]
             /\ exc' = ""
             /\ self' = e.self
             /\ data' = e.data
    /\ UNCHANGED <<stage, first_patterns, adr_calls>>

InsightFrames ==
    RoutineFrames(MaxHours, MaxPerHour)
      \cup LifeEventFrames(MaxTravelDay, MaxSessionTravel)
      \cup VolumeFrames(MaxDays, 2)

InitInsights == InitClassified(InsightFrames)

NextInsights == GenerateInsights

SpecInsights == InitInsights /\ [][NextInsights]_vars

(* the sum over the dates of the hour of the date's first event            *)
WakeSum(df) ==
    LET ds == SetToSeq(EventDates(df))
        first_hour(d) == MinOf({dt_hour(EventTimes(df)[r]) :
                                  r \in {q \in 1..df_len(df) : dt_date(EventTimes(df)[q]) = d}})
    IN  SumSeq(AsSeq([k \in 1..Len(ds) |-> first_hour(ds[k])]))

(* C16: whenever wake_up_time is present the insights hold exactly one     *)
(* sleep_pattern: early riser for an average wake hour < 7, late starter   *)
(* for > 9, regular morning routine otherwise, so also for exactly 7 and   *)
(* exactly 9.                                                              *)
C16_SleepPatternByAverageWakeHour ==
    op = "generate_insights" =>
        /\ ("sleep_pattern" \in DOMAIN ret.insights) <=> ("wake_up_time" \in DOMAIN ret.patterns)
        /\ "sleep_pattern" \in DOMAIN ret.insights =>
              LET n == Cardinality(EventDates(data))
                  w == WakeSum(data)
              IN  /\ ret.patterns.wake_up_time.average = [nan |-> FALSE, num |-> w, den |-> n]
                  /\ w < 7 * n => ret.insights.sleep_pattern = EarlyRiser
                  /\ w > 9 * n => ret.insights.sleep_pattern = LateStarter
                  /\ (7 * n <= w /\ w <= 9 * n) => ret.insights.sleep_pattern = RegularMorning

C16_Witness ==
    /\ op = "generate_insights"
    /\ "sleep_pattern" \in DOMAIN ret.insights
    /\ Cardinality(EventDates(data)) = 2
    /\ WakeSum(data) = 9 * 2
    /\ ret.insights.sleep_pattern = RegularMorning

HighRecords == {k \in 1..Len(ret.life_events) : ret.life_events[k].type = "high_activity"}

OtherRecords ==
    {k \in 1..Len(ret.life_events) :
        ret.life_events[k].type \in {"low_activity", "travel_period"}}

(* C17: the insights hold a life_events summary iff the life-event list    *)
(* has a high_activity record, and the summary states the number of        *)
(* high_activity records; low_activity and travel_period records neither   *)
(* trigger it nor count.                                                   *)
C17_SummaryCountsHighActivityOnly ==
    op = "generate_insights" =>
        /\ ("life_events" \in DOMAIN ret.insights) <=> (HighRecords # {})
        /\ "life_events" \in DOMAIN ret.insights =>
              ret.insights.life_events =
                  "Detected " \o ToString(Cardinality(HighRecords))
                      \o " periods of unusually high activity."

C17_Witness ==
    /\ op = "generate_insights"
    /\ HighRecords # {}
    /\ OtherRecords # {}
    /\ ret.insights.life_events = "Detected 1 periods of unusually high activity."

(* a value is null when it prints as NaN does (a number never does)        *)
isna(v) == ToString(v) = ToString(NaN)

(* C18: after classify_with_context every event of the classified stream   *)
(* has a predicted_activity and a confidence that are not null; a failed   *)
(* classification never stays in the stream as such an event.              *)
C18_NoNullLabelInClassifiedStream ==
    (op = "classify_with_context" /\ exc = "" /\ ~df_empty(ret)) =>
        /\ has_column(ret, "predicted_activity")
        /\ has_column(ret, "confidence")
        /\ \A r \in 1..df_len(ret) :
              /\ ~isna(get_column(ret, "predicted_activity")[r])
              /\ ~isna(get_column(ret, "confidence")[r])

(* ------------------------- HuggingFaceClient -------------------------- *)
MaxLabels == 3

max_retries == 3

None == [NoneType |-> TRUE]

(* requests.post either raises a RequestException or gives a response with *)
(* a status code and a body                                                *)
RequestException == [raised |-> TRUE, status_code |-> 0, json |-> None]

Response(status_code, json) == [raised |-> FALSE, status_code |-> status_code, json |-> json]

(* the zero-shot answers of the hosted model: the candidate labels in some *)
(* order of preference, with a score for each                              *)
ZeroShotAnswers(text, candidate_labels) ==
    LET n == Len(candidate_labels)
    IN  {[sequence |-> text,
          labels |-> AsSeq([i \in 1..n |-> candidate_labels[p[i]]]),
          scores |-> AsSeq([i \in 1..n |-> 90 \div i])] : p \in Permutations(1..n)}

(* what one attempt can meet: a failed request, a model still loading      *)
(* (503), a refused request (401) or an answer (200)                       *)
ApiResponses(text, candidate_labels) ==
    {RequestException, Response(503, None), Response(401, None)}
        \cup {Response(200, a) : a \in ZeroShotAnswers(text, candidate_labels)}

(* a loop that goes on to the next attempt after any status but 200       *)
RECURSIVE query_model_retry_any(_, _)
query_model_retry_any(responses, attempt) ==
    IF attempt >= max_retries THEN None
    ELSE LET response == responses[attempt + 1]
         IN  IF response.raised THEN query_model_retry_any(responses, attempt + 1)
             ELSE IF response.status_code = 200 THEN response.json
             ELSE query_model_retry_any(responses, attempt + 1)

(* query_model: responses[attempt + 1] is what requests.post meets on that *)
(* attempt                                                                 *)
RECURSIVE query_model(_, _)
query_model(responses, attempt) ==
    IF attempt >= max_retries THEN None
    ELSE LET response == responses[attempt + 1]
         IN  IF response.raised THEN query_model(responses, attempt + 1)
             ELSE IF response.status_code = 200 THEN response.json
             ELSE IF response.status_code = 503 THEN query_model(responses, attempt + 1)
             ELSE None

(* the number of requests.post calls of the same loop from attempt on     *)
RECURSIVE requests_posted(_, _)
requests_posted(responses, attempt) ==
    IF attempt >= max_retries THEN 0
    ELSE LET response == responses[attempt + 1]
         IN  IF response.raised THEN 1 + requests_posted(responses, attempt + 1)
             ELSE IF response.status_code = 200 THEN 1
             ELSE IF response.status_code = 503 THEN 1 + requests_posted(responses, attempt + 1)
             ELSE 1

classify_activity(text, candidate_labels, responses) == query_model(responses, 0)

ClientLabels == {"Work", "Travel", "Exercise"}

LabelLists(most) ==
    UNION {{l \in [1..n -> ClientLabels] : \A i, j \in 1..n : l[i] = l[j] => i = j}
              : n \in 1..most}

ClientCalls(most) ==
    {[text |-> t, candidate_labels |-> AsSeq(l)] :
        t \in {"meeting", "flight"}, l \in LabelLists(most)}

InitClient ==
    /\ data \in ClientCalls(MaxLabels)
    /\ stage = "client"
    /\ self = PatternAnalyzer
    /\ op = "init"
    /\ ret = <<>>
    /\ exc = ""
    /\ first_patterns = <<>>
    /\ adr_calls = 0

ClassifyActivity ==
    /\ stage = "client"
    /\ \E responses \in [1..max_retries -> ApiResponses(data.text, data.candidate_labels)] :
           ret' = classify_activity(data.text, data.candidate_labels, responses)
    /\ op' = "classify_activity"
    /\ exc' = ""
    /\ UNCHANGED <<data, self, stage, first_patterns, adr_calls>>

NextClient == ClassifyActivity

SpecClient == InitClient /\ [][NextClient]_vars

(* C19: classify_activity returns a result that is not None and holds      *)
(* 'labels' and 'scores', with as many labels as candidate labels passed.  *)
C19_ClassifyActivityAnswersAllLabels ==
    op = "classify_activity" =>
        /\ ret # None
        /\ "labels" \in DOMAIN ret
        /\ "scores" \in DOMAIN ret
        /\ Len(ret.labels) = Len(data.candidate_labels)

Ascending(times) ==
    \A r, q \in 1..Len(times) : r < q => times[r][2] <= times[q][2]

(* C20: after ingestion (preprocess_dataframe, classify_with_context) the  *)
(* events handed to the analyses are in ascending order of timestamp,      *)
(* whatever the order of the records in the input.                         *)
C20_IngestedEventsAscending ==
    (/\ op \in IngestOps \cup {"show_data_upload"}
     /\ stage \in {"uploaded", "classified"}
     /\ has_column(data, "datetime")) =>
        Ascending(get_column(data, "datetime"))

duplicated_columns(df) ==
    {df.cols[i] : i \in {k \in 1..Len(df.cols) : \E j \in 1..(k - 1) : df.cols[j] = df.cols[k]}}

(* C21: a record set with two definitions of the same field is rejected;   *)
(* analyze_daily_routine never computes its patterns from such a record    *)
(* set after choosing one of the duplicates.                               *)
C21_DuplicateFieldsRejected ==
    (op = "analyze_daily_routine" /\ duplicated_columns(data) # {}) =>
        /\ exc # ""
        /\ ret = <<>>

(* |count(d) - mean of the dates that exist in the window of d| > 2 * std  *)
(* of all the daily counts (ddof = 1), with w the size of the window:      *)
(* (w*c - Sw)^2 * N*(N-1) > 4 * w^2 * (N * sum c^2 - (sum c)^2)            *)
BeyondTwoStdOfWindow(df, d) ==
    LET W == CenteredWindow(df, d)
        w == Cardinality(W)
        N == Cardinality(EventDates(df))
        dev == w * CountOn(df, d) - SumCounts(df, W)
        S == SumCounts(df, EventDates(df))
    IN  /\ N >= 2
        /\ dev * dev * N * (N - 1) > 4 * w * w * (N * SumSqCounts(df, EventDates(df)) - S * S)

BoundaryDates(df) ==
    {d \in EventDates(df) : Cardinality(CenteredWindow(df, d)) < RollingWindow}

(* C22: a date within 3 positions of either end of the daily-count series  *)
(* takes the mean of the values that exist in its window as baseline, so   *)
(* it is flagged when its count is more than 2 std away from that mean.    *)
C22_BoundaryDateUsesPartialWindow ==
    (op \in VolumeOps /\ df_len(data) >= MinEvents) =>
        \A d \in BoundaryDates(data) :
            BeyondTwoStdOfWindow(data, d) =>
                \E k \in VolumeRecords : ret[k].date = d

(* the standard deviation of the daily counts is 0: at least two dates,    *)
(* all with the same count                                                 *)
ZeroStd(df) ==
    /\ Cardinality(EventDates(df)) >= 2
    /\ \A d, e \in EventDates(df) : CountOn(df, d) = CountOn(df, e)

(* C23: when the standard deviation of the daily counts is 0 no volume     *)
(* record is emitted, so the division by that standard deviation, which    *)
(* only the construction of a record holds, is never evaluated.            *)
C23_FlatSeriesNoRecord ==
    (op \in VolumeOps /\ ZeroStd(data)) => VolumeRecords = {}

C23_Witness ==
    /\ op = "detect_life_events"
    /\ df_len(data) >= MinEvents
    /\ ZeroStd(data)
    /\ EventDates(data) # BoundaryDates(data)
    /\ series_std(DailyCounts(data)).var_num = 0
    /\ VolumeRecords = {}

(* 7 * (count(d) - baseline(d)) for a date with a full window              *)
SevenDeviations(df, d) == 7 * CountOn(df, d) - SumCounts(df, CenteredWindow(df, d))

(* N * (N - 1) * the variance (ddof = 1) of the daily counts               *)
ScaledVariance(df) ==
    LET N == Cardinality(EventDates(df))
        S == SumCounts(df, EventDates(df))
    IN  N * SumSqCounts(df, EventDates(df)) - S * S

(* (|count - baseline| / (3 * std))^2 = dev7^2 * N*(N-1) / (441 * V)       *)
RawConfidenceSq(df, d) ==
    LET N == Cardinality(EventDates(df))
    IN  [num |-> SevenDeviations(df, d) * SevenDeviations(df, d) * N * (N - 1),
         den |-> 441 * ScaledVariance(df)]

(* C24: every volume record of detect_life_events is high_activity exactly *)
(* when the date's count is above its baseline and low_activity otherwise; *)
(* its confidence is min(|count - baseline| / (3 * std), 1), a value       *)
(* between 0 and 1 (the record holds the square of it).                    *)
C24_TypeAndConfidenceOfVolumeRecord ==
    op = "detect_life_events" =>
        \A k \in VolumeRecords :
            LET d == ret[k].date
                raw == RawConfidenceSq(data, d)
                c == ret[k].confidence
            IN  /\ (ret[k].type = "high_activity") <=> (SevenDeviations(data, d) > 0)
                /\ (ret[k].type = "low_activity") <=> (SevenDeviations(data, d) <= 0)
                /\ raw.den > 0
                /\ IF raw.num >= raw.den THEN c.num = c.den
                   ELSE c.num * raw.den = raw.num * c.den
                /\ c.den > 0 /\ 0 <= c.num /\ c.num <= c.den

C24_Witness ==
    /\ op = "detect_life_events"
    /\ \E k \in VolumeRecords :
          /\ ret[k].confidence.num < ret[k].confidence.den
          /\ RawConfidenceSq(data, ret[k].date).num < RawConfidenceSq(data, ret[k].date).den

HoursOn(df, d) ==
    {dt_hour(EventTimes(df)[r]) : r \in {q \in 1..df_len(df) : dt_date(EventTimes(df)[q]) = d}}

(* the first (last) hour of every date, in date order                      *)
DailyFirstHours(df) ==
    LET ds == python_sorted_set(EventDates(df))
    IN  AsSeq([k \in 1..Len(ds) |-> MinOf(HoursOn(df, ds[k]))])

DailyLastHours(df) ==
    LET ds == python_sorted_set(EventDates(df))
    IN  AsSeq([k \in 1..Len(ds) |-> MaxOf(HoursOn(df, ds[k]))])

Frequency(s, v) == Cardinality({i \in 1..Len(s) : s[i] = v})

MostFrequent(s) == {v \in Range(s) : \A w \in Range(s) : Frequency(s, w) <= Frequency(s, v)}

(* the most frequent value whose first occurrence in s is the earliest     *)
FirstMostFrequent(s) ==
    s[MinOf({i \in 1..Len(s) : s[i] \in MostFrequent(s)})]

(* C25: most_common of wake_up_time (sleep_time) is a most frequent value  *)
(* of the per-date first (last) hours, and among several most frequent     *)
(* values the one that occurs first in date order.                         *)
C25_MostCommonFirstOccurrenceWins ==
    (op = "analyze_daily_routine" /\ ~routine_guard(data)) =>
        /\ ret.wake_up_time.most_common = FirstMostFrequent(DailyFirstHours(data))
        /\ ret.sleep_time.most_common = FirstMostFrequent(DailyLastHours(data))

(* --------------------- collections with empty days -------------------- *)
(* base events on every day of S, other events on the day odd (when it is  *)
(* in S), none on the remaining days of 0..last                            *)
GapFrame(S, odd, base, other, last) ==
    VolumeFrame(AsSeq([d \in 1..(last + 1) |->
        IF d - 1 \notin S THEN 0 ELSE IF d - 1 = odd THEN other ELSE base]))

GapFrames(last) ==
    {GapFrame(S, odd, bo[1], bo[2], last) :
        S \in {T \in SUBSET (0..last) : Cardinality(T) >= RollingWindow},
        odd \in 0..last,
        bo \in {<<2, 5>>, <<5, 2>>}}

InitGaps == InitClassified(GapFrames(MaxGapDay))

SpecGaps == InitGaps /\ [][NextVolume]_vars

CalendarGaps(df) ==
    {d \in MinOf(EventDates(df))..MaxOf(EventDates(df)) : d \notin EventDates(df)}

(* C26: the daily-count series holds the dates that have an event and no   *)
(* other: a volume record is about a date with events, its baseline is the *)
(* mean over the 7 dates with events around it (whatever calendar days     *)
(* lie between them), and no date without events is reported.              *)
C26_SeriesHoldsOnlyDatesWithEvents ==
    op \in VolumeOps =>
        \A k \in VolumeRecords :
            /\ ret[k].date \in EventDates(data)
            /\ ret[k].activity_count >= 1
            /\ Cardinality(CenteredWindow(data, ret[k].date)) = RollingWindow
            /\ ret[k].expected_count.den = RollingWindow
            /\ ret[k].expected_count.num = SumCounts(data, CenteredWindow(data, ret[k].date))

C26_Witness ==
    /\ op = "detect_life_events"
    /\ \E k \in VolumeRecords :
          /\ ret[k].type = "low_activity"
          /\ CalendarGaps(data) \cap
               (MinOf(CenteredWindow(data, ret[k].date))..MaxOf(CenteredWindow(data, ret[k].date)))
               # {}

(* the first and the last date a travel-period event stands for            *)
FirstDate(e) == e.date

LastDate(e) == IF op = "_detect_travel_patterns" THEN e.date + e.duration_days - 1
               ELSE e.end_date

DurationOf(e) == IF op = "_detect_travel_patterns" THEN e.duration_days ELSE e.severity

(* C27: the travel-period events of one input cover pairwise disjoint date *)
(* ranges: the duration of an event is last date - first date + 1 of a run *)
(* of Travel dates, and a later event starts at least 2 days after the     *)
(* last date of the event before it.                                       *)
C27_TravelPeriodsDisjoint ==
    op \in TravelOps =>
        /\ \A k \in 1..Len(ret) :
              /\ DurationOf(ret[k]) = LastDate(ret[k]) - FirstDate(ret[k]) + 1
              /\ FirstDate(ret[k])..LastDate(ret[k]) \subseteq TravelDateSet(data)
        /\ \A k \in 1..(Len(ret) - 1) :
              FirstDate(ret[k + 1]) - LastDate(ret[k]) >= 2
        /\ \A d \in TravelDateSet(data) :
              Cardinality({k \in 1..Len(ret) : d \in FirstDate(ret[k])..LastDate(ret[k])}) <= 1

C27_Witness ==
    /\ op = "_detect_travel_from_timeline"
    /\ Len(ret) = 2
    /\ FirstDate(ret[2]) - LastDate(ret[1]) = 2

(* ------------------------------ query_model --------------------------- *)
(* one call of query_model: data holds the payload, what the service will  *)
(* answer to each successive request, and the requests posted so far       *)
QueryCalls ==
    {[text |-> "meeting", candidate_labels |-> <<"Work", "Travel">>,
      responses |-> AsSeq(r), posted |-> 0] :
        r \in [1..max_retries -> ApiResponses("meeting", <<"Work", "Travel">>)]}

InitQuery ==
    /\ data \in QueryCalls
    /\ stage = "client"
    /\ self = PatternAnalyzer
    /\ op = "init"
    /\ ret = <<>>
    /\ exc = ""
    /\ first_patterns = <<>>
    /\ adr_calls = 0

QueryModel ==
    /\ stage = "client"
    /\ op = "init"
    /\ ret' = query_model(data.responses, 0)
    /\ data' = [data EXCEPT !.posted = requests_posted(data.responses, 0)]
    /\ op' = "query_model"
    /\ exc' = ""
    /\ UNCHANGED <<self, stage, first_patterns, adr_calls>>

NextQuery == QueryModel

SpecQuery == InitQuery /\ [][NextQuery]_vars

(* the attempts that lead to another one: a 503 or a request exception     *)
Retried(response) == response.raised \/ response.status_code = 503

(* the first attempt that is not retried, 0 when there is none             *)
FirstSettled(responses) ==
    LET F == {i \in 1..max_retries : ~Retried(responses[i])}
    IN  IF F = {} THEN 0 ELSE MinOf(F)

(* C28: query_model ends after at most max_retries requests: it returns    *)
(* the body of the first 200, returns None without another request on a    *)
(* status other than 200 and 503, goes on after a 503 or an exception, and *)
(* returns None when every one of the max_retries attempts was retried.    *)
C28_QueryModelBoundedRetries ==
    op = "query_model" =>
        LET f == FirstSettled(data.responses)
        IN  /\ data.posted <= max_retries
            /\ f = 0 => (data.posted = max_retries /\ ret = None)
            /\ f # 0 =>
                 /\ data.posted = f
                 /\ ret = IF data.responses[f].status_code = 200
                          THEN data.responses[f].json ELSE None

C28_Witness ==
    /\ op = "query_model"
    /\ data.responses[1].status_code = 503
    /\ data.responses[2].raised
    /\ data.responses[3].status_code = 200
    /\ data.posted = max_retries
    /\ ret = data.responses[3].json

(* ---------------------------- classify_batch -------------------------- *)
(* _preprocess_text: whitespace is collapsed and stripped, so a blank text *)
(* becomes the empty text                                                  *)
_preprocess_text(text) == IF text = "  " THEN "" ELSE text

(* an answer of the service without 'labels' and 'scores'                  *)
MalformedAnswer == [error |-> "Model is overloaded"]

_process_classification_result(result, original_text) ==
    IF "labels" \notin DOMAIN result \/ "scores" \notin DOMAIN result
    THEN [error |-> "Invalid API response format"]
    ELSE [predicted_activity |-> result.labels[1],
          confidence |-> result.scores[1],
          original_text |-> original_text]

(* one pass of the loop of a classify_batch that leaves out empty texts    *)
batch_entry_skipping_empty(text, result) ==
    IF _preprocess_text(text) # ""
    THEN IF result # None
         THEN <<_process_classification_result(result, text)>>
         ELSE <<[error |-> "API classification failed", original_text |-> text]>>
    ELSE <<>>

(* one pass of the loop of classify_batch: what it appends to results for  *)
(* text; result is what hf_client.classify_activity returns for it         *)
batch_entry(text, result) ==
    IF _preprocess_text(text) # ""
    THEN IF result # None
         THEN <<_process_classification_result(result, text)>>
         ELSE <<[error |-> "API classification failed", original_text |-> text]>>
    ELSE <<[error |-> "Empty text", original_text |-> text]>>

RECURSIVE classify_batch(_, _, _, _)
classify_batch(texts, api, i, results) ==
    IF i > Len(texts) THEN results
    ELSE classify_batch(texts, api, i + 1, results \o batch_entry(texts[i], api[i]))

BatchTexts == {"meeting", "flight", "  "}

BatchAnswers(text) ==
    {None, MalformedAnswer} \cup ZeroShotAnswers(text, <<"Work", "Travel">>)

(* the texts of a batch, each with what the service returns for it         *)
BatchPairs == UNION {{<<t, a>> : a \in BatchAnswers(t)} : t \in BatchTexts}

BatchCalls(most) ==
    UNION {{[texts |-> AsSeq([i \in 1..n |-> c[i][1]]),
             api |-> AsSeq([i \in 1..n |-> c[i][2]])] : c \in [1..n -> BatchPairs]}
              : n \in 0..most}

InitBatch ==
    /\ data \in BatchCalls(MaxBatch)
    /\ stage = "client"
    /\ self = PatternAnalyzer
    /\ op = "init"
    /\ ret = <<>>
    /\ exc = ""
    /\ first_patterns = <<>>
    /\ adr_calls = 0

ClassifyBatch ==
    /\ stage = "client"
    /\ ret' = classify_batch(data.texts, data.api, 1, <<>>)
    /\ op' = "classify_batch"
    /\ exc' = ""
    /\ UNCHANGED <<data, self, stage, first_patterns, adr_calls>>

NextBatch == ClassifyBatch

SpecBatch == InitBatch /\ [][NextBatch]_vars

(* the entry at index i is the classification of texts[i] or an error for  *)
(* texts[i]                                                                *)
EntryIsAbout(entry, text, answer) ==
    IF text = "  " \/ answer = None
    THEN "error" \in DOMAIN entry /\ entry.original_text = text
    ELSE IF answer = MalformedAnswer
    THEN "error" \in DOMAIN entry
    ELSE /\ "error" \notin DOMAIN entry
         /\ entry.original_text = text
         /\ entry.predicted_activity = answer.labels[1]

(* C29: classify_batch returns one result per input text, in input order:  *)
(* the result at index i is the classification of texts[i] or an error     *)
(* entry for texts[i]; an empty or failed text shifts no later result.     *)
C29_BatchOneResultPerText ==
    op = "classify_batch" =>
        /\ Len(ret) = Len(data.texts)
        /\ \A i \in 1..Len(data.texts) : EntryIsAbout(ret[i], data.texts[i], data.api[i])

C29_Witness ==
    /\ op = "classify_batch"
    /\ Len(data.texts) = 3
    /\ data.texts[1] = "  "
    /\ data.api[2] = None /\ data.texts[2] = "meeting"
    /\ "error" \in DOMAIN ret[1] /\ "error" \in DOMAIN ret[2]
    /\ "error" \notin DOMAIN ret[3]
    /\ ret[3].original_text = "flight"

(* ------------------- the same events in another order ----------------- *)
Permute(df, p) == [df EXCEPT !.rows = AsSeq([i \in 1..Len(df.rows) |-> df.rows[p[i]]])]

(* orders of n rows: every one for up to 4 rows; beyond, the rotations,    *)
(* the reversal and the swaps of two neighbours                            *)
Shuffles(n) ==
    IF n <= 4 THEN Permutations(1..n)
    ELSE {[i \in 1..n |-> ((i - 1 + k) % n) + 1] : k \in 0..(n - 1)}
         \cup {[i \in 1..n |-> n + 1 - i]}
         \cup {[i \in 1..n |-> IF i = k THEN k + 1 ELSE IF i = k + 1 THEN k ELSE i] :
                  k \in 1..(n - 1)}

OrderFrames(last) ==
    UNION {{Permute(f, p) : p \in Shuffles(Len(f.rows))} :
              f \in {TravelFrame(S, last) : S \in {T \in SUBSET (0..last) : Cardinality(T) <= 2}}
                    \cup RoutineFrames(2, 2)}

InitOrder == InitClassified(OrderFrames(MaxOrderDay))

NextOrder == AnalyzeDailyRoutine \/ DetectLifeEvents

SpecOrder == InitOrder /\ [][NextOrder]_vars

(* the rows of df from the earliest to the latest                          *)
Chronological(df) ==
    LET t == EventTimes(df)
        place(r) == Cardinality({q \in 1..Len(t) : t[q][2] < t[r][2] \/ (t[q][2] = t[r][2] /\ q <= r)})
    IN  [df EXCEPT !.rows =
            AsSeq([n \in 1..Len(df.rows) |-> df.rows[CHOOSE r \in 1..Len(t) : place(r) = n]])]

(* C30: analyze_daily_routine and detect_life_events give, for the events  *)
(* in any order, the patterns and the life-event list they give for the    *)
(* same events in order of time.                                           *)
C30_ResultsIndependentOfEventOrder ==
    /\ op = "analyze_daily_routine" =>
          ret = analyze_daily_routine(self, Chronological(data)).ret
    /\ op = "detect_life_events" =>
          ret = detect_life_events(self, Chronological(data)).ret

C30_Witness ==
    /\ op = "detect_life_events"
    /\ data # Chronological(data)
    /\ VolumeRecords # {}
    /\ TravelRecords # {}
    /\ ret = detect_life_events(self, Chronological(data)).ret

====
